---- MODULE Spec2Model ----
(***************************************************************************)
(* MTA turnstile ETL: import_data / find_links (import_data.py),           *)
(* cleanse_data and its helpers (preprocessing.py) and                     *)
(* weekday_weekend_traffic_differences (utils.py).                         *)
(*                                                                         *)
(* Four specifications share the module:                                   *)
(*   Spec      import_data together with find_links                        *)
(*   SpecNorm  cleanse_data on well-formed raw frames                      *)
(*   SpecSchema cleanse_data on frames whose header varies                 *)
(*   SpecAgg   weekday_weekend_traffic_differences                         *)
(* A Python exception is modelled by the name of the class that is         *)
(* actually raised.                                                        *)
(***************************************************************************)
EXTENDS Integers, Sequences, FiniteSets, TLC

VARIABLES
    \* ---- import_data / find_links
    anchors,        \* soup.find_all('a'): the anchors of the catalog page
    start_date,     \* argument of import_data
    end_date,       \* argument of import_data
    pc,             \* position inside import_data
    links,          \* find_links' turnstile_df: rows [Date, Hyperlink]
    filtered,       \* mta_hyperlinks_df after .loc[mask]
    idx,            \* position of the for loop over the filtered links
    fetched,        \* every URL handed to pd.read_csv, in call order
    failed,         \* the URLs whose pd.read_csv raised
    turnstile_df,   \* the frame import_data accumulates and returns
    err,            \* [kind, line]: the exception that left import_data
    \* ---- cleanse_data
    df,             \* the caller's frame object (mutated in place)
    df0,            \* the frame as it was when the caller passed it
    npc,            \* "call" | "returned" | "raised"
    nout,           \* the frame cleanse_data returns
    nerr,           \* [kind, line]: the exception that left cleanse_data
    \* ---- weekday_weekend_traffic_differences
    adf,            \* argument df
    week,           \* argument week
    apc,            \* "call" | "returned" | "raised"
    aout,           \* returned frame
    aerr            \* exception kind ("" while none)

fetchVars == <<anchors, start_date, end_date, pc, links, filtered, idx,
               fetched, failed, turnstile_df, err>>
normVars == <<df, df0, npc, nout, nerr>>
aggVars == <<adf, week, apc, aout, aerr>>
vars == <<fetchVars, normVars, aggVars>>

\* ------------------------------------------------------------- helpers

Range(s) == {s[i] : i \in 1..Len(s)}

\* The sequence a function on 1..n is
Tuple(fn) == fn \o <<>>

\* x occurs as a contiguous run inside s (Python's `x in s` on strings).
Contains(s, x) ==
    \E i \in 0..(Len(s) - Len(x)) :
        \A j \in 1..Len(x) : s[i + j] = x[j]

\* ------------------------------------------------ import_data.py: data

MaxAnchors == 3

NoError == [kind |-> "", line |-> 0]

\* 'data/nyct/turnstile/' and 'http://web.mta.info/developers/', a path
\* being the sequence of its segments.
DataMarker == <<"data", "nyct", "turnstile">>
BasePath == <<"http:", "web.mta.info", "developers">>

\* Display texts of the catalog page's anchors.
LinkTexts == {"Saturday, April 27, 2019", "Saturday, May 04, 2019",
              "Saturday, May 11, 2019", "Current"}

FileOf(text) ==
    CASE text = "Saturday, April 27, 2019" -> "turnstile_190427.txt"
      [] text = "Saturday, May 04, 2019" -> "turnstile_190504.txt"
      [] text = "Saturday, May 11, 2019" -> "turnstile_190511.txt"
      [] OTHER -> "turnstile_current.txt"

Anchors ==
    {[attrs |-> {}, href |-> <<>>, text |-> "Home"],
     [attrs |-> {"href"}, href |-> <<"resources", "nyct", "turnstile", "ts_Field_Description.txt">>,
      text |-> "Field Description"]}
    \cup {[attrs |-> {"href"}, href |-> DataMarker \o <<FileOf(t)>>, text |-> t] :
            t \in LinkTexts}

\* A datetime.datetime is the integer yyyymmdd (midnight); any other
\* argument type is a str.
Datetime(n) == [type |-> "datetime", value |-> n]
DateArgs == {Datetime(n) : n \in {20190420, 20190427, 20190504, 20190511}}
            \cup {[type |-> "str", value |-> 0]}

\* dateutil's parse of a display text: the Timestamp, or -1 where the
\* parse raises ValueError.
ParseDate(text) ==
    CASE text = "Saturday, April 27, 2019" -> 20190427
      [] text = "Saturday, May 04, 2019" -> 20190504
      [] text = "Saturday, May 11, 2019" -> 20190511
      [] OTHER -> -1

Parses(text) == ParseDate(text) # -1

\* pd.read_csv(url) when it succeeds: the table published at url.
CsvAt(url) == <<[source |-> url, row |-> 1]>>

\* ------------------------------------------------ find_links

\* lines 64-72: the [date, hyperlink] pairs of the anchors that carry the
\* marker, in page order.
IsDataLink(a) == "href" \in a.attrs /\ Contains(a.href, DataMarker)

RECURSIVE TurnstileLinks(_)
TurnstileLinks(as) ==
    IF as = <<>> THEN <<>>
    ELSE (IF IsDataLink(Head(as))
          THEN <<[Date |-> [type |-> "str", value |-> Head(as).text],
                  Hyperlink |-> BasePath \o Head(as).href]>>
          ELSE <<>>)
         \o TurnstileLinks(Tail(as))

\* lines 79-82: pd.to_datetime converts the whole column or, when one text
\* does not parse, raises ValueError, which is caught: the column is left
\* as it was.
ToDatetimeColumn(rows) ==
    IF \A i \in 1..Len(rows) : Parses(rows[i].Date.value)
    THEN [i \in 1..Len(rows) |->
            [rows[i] EXCEPT !.Date = [type |-> "Timestamp",
                                      value |-> ParseDate(rows[i].Date.value)]]]
    ELSE rows

\* A mask that also lets the start date itself through.
InRangeInclusive(d, s, e) == d >= s /\ d <= e

\* line 37: the boolean mask (evaluated on a converted column only).
InRange(d, s, e) == d > s /\ d <= e

MaskRows(rows, s, e) ==
    SelectSeq(rows, LAMBDA r : InRange(r.Date.value, s, e))

\* ------------------------------------------------ import_data: steps

InitFetch ==
    /\ \E k \in 0..MaxAnchors : anchors \in [1..k -> Anchors]
    /\ start_date \in DateArgs
    /\ end_date \in DateArgs
    /\ pc = "call"
    /\ links = <<>>
    /\ filtered = <<>>
    /\ idx = 1
    /\ fetched = <<>>
    /\ failed = {}
    /\ turnstile_df = <<>>
    /\ err = NoError

Raise(kind, line) ==
    /\ pc' = "raised"
    /\ err' = [kind |-> kind, line |-> line]

\* lines 19-26: the argument checks.
CheckArgs ==
    /\ pc = "call"
    /\ \E mta_webpage \in {"str", "int"} :
        IF start_date.type # "datetime" THEN Raise("TypeError", 20)
        ELSE IF end_date.type # "datetime" THEN Raise("TypeError", 22)
        ELSE IF mta_webpage # "str" THEN Raise("TypeError", 24)
        ELSE IF start_date.value > end_date.value THEN Raise("ValueError", 26)
        ELSE pc' = "request" /\ UNCHANGED err
    /\ UNCHANGED <<anchors, start_date, end_date, links, filtered, idx,
                   fetched, failed, turnstile_df, normVars, aggVars>>

\* lines 28-33: the catalog page.
GetPage ==
    /\ pc = "request"
    /\ \E status_code \in {200, 404} :
        IF status_code # 200 THEN Raise("ValueError", 31)
        ELSE pc' = "find_links" /\ UNCHANGED err
    /\ UNCHANGED <<anchors, start_date, end_date, links, filtered, idx,
                   fetched, failed, turnstile_df, normVars, aggVars>>

\* lines 35, 52-84: find_links. `RunTimeError` is no name of the module
\* or of builtins, so line 75 raises NameError.
FindLinks ==
    /\ pc = "find_links"
    /\ LET turnstile_links == TurnstileLinks(anchors)
       IN IF Len(turnstile_links) = 0
          THEN Raise("NameError", 75) /\ UNCHANGED links
          ELSE /\ links' = ToDatetimeColumn(turnstile_links)
               /\ pc' = "mask"
               /\ UNCHANGED err
    /\ UNCHANGED <<anchors, start_date, end_date, filtered, idx,
                   fetched, failed, turnstile_df, normVars, aggVars>>

\* lines 37-41: the range mask. On a column still holding str the
\* comparison with a datetime raises TypeError.
MaskLinks ==
    /\ pc = "mask"
    /\ IF \E i \in 1..Len(links) : links[i].Date.type = "str"
       THEN Raise("TypeError", 37) /\ UNCHANGED filtered
       ELSE /\ filtered' = MaskRows(links, start_date.value, end_date.value)
            /\ pc' = "loop"
            /\ UNCHANGED err
    /\ UNCHANGED <<anchors, start_date, end_date, links, idx,
                   fetched, failed, turnstile_df, normVars, aggVars>>

\* lines 43-47: one iteration. `HTTPError` is no name of the module or
\* of builtins: matching the exception read_csv raised against it raises
\* NameError, which leaves the loop and import_data.
ReadCsv ==
    /\ pc = "loop"
    /\ idx <= Len(filtered)
    /\ LET url == filtered[idx].Hyperlink
       IN /\ fetched' = Append(fetched, url)
          /\ \E ok \in BOOLEAN :
                IF ok
                THEN /\ turnstile_df' = turnstile_df \o CsvAt(url)
                     /\ idx' = idx + 1
                     /\ UNCHANGED <<pc, err, failed>>
                ELSE /\ failed' = failed \cup {url}
                     /\ Raise("NameError", 46)
                     /\ UNCHANGED <<turnstile_df, idx>>
    /\ UNCHANGED <<anchors, start_date, end_date, links, filtered,
                   normVars, aggVars>>

\* line 49
Return ==
    /\ pc = "loop"
    /\ idx > Len(filtered)
    /\ pc' = "returned"
    /\ UNCHANGED <<anchors, start_date, end_date, links, filtered, idx,
                   fetched, failed, turnstile_df, err, normVars, aggVars>>

NextFetch ==
    \/ CheckArgs
    \/ GetPage
    \/ FindLinks
    \/ MaskLinks
    \/ ReadCsv
    \/ Return

\* ------------------------------------------------ preprocessing.py: data

MaxRows == 3

\* A text is the sequence of its pieces, " " being whitespace.  A cell of a
\* frame is one record shape for every dtype.
Str(t) == [kind |-> "str", s |-> t, n |-> 0]
Int64(k) == [kind |-> "int", s |-> <<>>, n |-> k]
Float(k) == [kind |-> "float", s |-> <<>>, n |-> k]
Timestamp(k) == [kind |-> "ts", s |-> <<>>, n |-> k]
NaN == [kind |-> "nan", s |-> <<>>, n |-> 0]

\* A frame: the header and the rows, each row holding one cell per column.
Frame(columns, rows) == [columns |-> Tuple(columns), rows |-> Tuple(rows)]
NoFrame == Frame(<<>>, <<>>)

HasColumn(f, name) == \E i \in 1..Len(f.columns) : f.columns[i] = name

\* (the column names of a frame are distinct)
ColumnIndex(f, name) == CHOOSE i \in 1..Len(f.columns) : f.columns[i] = name

\* f[name] of row r
Cell(f, r, name) == f.rows[r][ColumnIndex(f, name)]

\* f[name] = cells (a new column goes last, an existing one is replaced)
SetColumn(f, name, cells) ==
    IF HasColumn(f, name)
    THEN Frame(f.columns,
               [r \in 1..Len(f.rows) |->
                   [f.rows[r] EXCEPT ![ColumnIndex(f, name)] = cells[r]]])
    ELSE Frame(Append(f.columns, name),
               [r \in 1..Len(f.rows) |-> Append(f.rows[r], cells[r])])

\* f.drop(columns=names)
DropColumns(f, names) ==
    LET keep == SelectSeq([i \in 1..Len(f.columns) |-> i],
                          LAMBDA i : f.columns[i] \notin names)
    IN Frame([k \in 1..Len(keep) |-> f.columns[keep[k]]],
             [r \in 1..Len(f.rows) |->
                 Tuple([k \in 1..Len(keep) |-> f.rows[r][keep[k]]])])

\* f.loc[mask]: the rows r with Keep(f, r), in order
RECURSIVE RowsFrom(_, _, _)
RowsFrom(f, r, mask) ==
    IF r > Len(f.rows) THEN <<>>
    ELSE (IF mask[r] THEN <<f.rows[r]>> ELSE <<>>) \o RowsFrom(f, r + 1, mask)

KeepRows(f, Keep(_, _)) ==
    Frame(f.columns,
          RowsFrom(f, 1, Tuple([r \in 1..Len(f.rows) |-> Keep(f, r)])))

\* f[name] = the value Fn(f, r) on every row r
AddColumn(f, name, Fn(_, _)) ==
    SetColumn(f, name, Tuple([r \in 1..Len(f.rows) |-> Fn(f, r)]))

\* lines 114-116
correct_column_names ==
    <<<<"C/A">>, <<"UNIT">>, <<"SCP">>, <<"STATION">>, <<"LINENAME">>,
      <<"DIVISION">>, <<"DATE">>, <<"TIME">>, <<"DESC">>, <<"ENTRIES">>,
      <<"EXITS">>>>

\* ./datasets/station_coordinates.csv (line 74): STATION, LATITUDE,
\* LONGITUDE, the coordinates in thousandths of a degree.
station_coordinates ==
    Frame(<<<<"STATION">>, <<"LATITUDE">>, <<"LONGITUDE">>>>,
          <<<<Str(<<"59 ST">>), Float(40762), Float(-73967)>>,
            <<Str(<<"5 AV">>), Float(40753), Float(-73981)>>>>)

\* Python's str.strip on a text (lines 16, 98)
RECURSIVE LStrip(_)
LStrip(t) == IF t # <<>> /\ Head(t) = " " THEN LStrip(Tail(t)) ELSE t

RECURSIVE RStrip(_)
RStrip(t) ==
    IF t # <<>> /\ t[Len(t)] = " " THEN RStrip(SubSeq(t, 1, Len(t) - 1)) ELSE t

Strip(t) == RStrip(LStrip(t))

\* Python's order on str for the texts of the model: piece by piece, a
\* shorter prefix first.
PieceRank(p) ==
    CASE p = " " -> 0
      [] p = "5 AV" -> 1
      [] p = "59 ST" -> 2
      [] p = "WTC" -> 3
      [] OTHER -> 4

RECURSIVE StrLess(_, _)
StrLess(a, b) ==
    IF b = <<>> THEN FALSE
    ELSE IF a = <<>> THEN TRUE
    ELSE IF Head(a) = Head(b) THEN StrLess(Tail(a), Tail(b))
    ELSE PieceRank(Head(a)) < PieceRank(Head(b))

\* date.toordinal() of the dates of the model
DateOrdinal(date) ==
    CASE date = "05/03/2019" -> 737182
      [] date = "05/04/2019" -> 737183
      [] date = "05/06/2019" -> 737185
      [] OTHER -> 737059

HourOf(time) ==
    CASE time = "00:00:00" -> 0
      [] time = "04:00:00" -> 4
      [] time = "20:00:00" -> 20
      [] OTHER -> 12

\* line 23: pd.to_datetime(DATE + ' ' + TIME, format="%m/%d/%Y %H:%M:%S"),
\* a Timestamp being the hours since the start of ordinal day 0.
ToDatetime(text) ==
    Timestamp(DateOrdinal(text[1]) * 24 + HourOf(text[3]))

\* lines 52-69: Timestamp.weekday(), .week (ISO, for dates of ISO year
\* 2019, whose week 1 starts on ordinal 737059) and .hour
Weekday(ts) == ((ts.n \div 24) + 6) % 7
IsoWeek(ts) == (((ts.n \div 24) - 737059) \div 7) + 1
Hour(ts) == ts.n % 24

days_of_the_week(d) ==
    CASE d = 0 -> "Monday" [] d = 1 -> "Tuesday" [] d = 2 -> "Wednesday"
      [] d = 3 -> "Thursday" [] d = 4 -> "Friday" [] d = 5 -> "Saturday"
      [] OTHER -> "Sunday"

\* ------------------------------------------------ preprocessing.py: steps

\* line 16: df.columns = df.columns.str.strip()
StripHeader(f) ==
    Frame([i \in 1..Len(f.columns) |-> Strip(f.columns[i])], f.rows)

\* lines 81-102: strip_spaces. Both `assert <exception>` lines pass, an
\* exception object being truthy; object columns are stripped in place.
strip_spaces(f) ==
    Frame(f.columns,
          [r \in 1..Len(f.rows) |->
              Tuple([c \in 1..Len(f.rows[r]) |->
                        IF f.rows[r][c].kind = "str"
                        THEN Str(Strip(f.rows[r][c].s))
                        ELSE f.rows[r][c]])])

\* lines 105-121: check_column_names. The two `assert ValueError(...)`
\* never fail; the elementwise `columns != correct_column_names` itself
\* raises ValueError when the lengths differ. "" when nothing is raised.
check_column_names(columns) ==
    IF Len(columns) # Len(correct_column_names) THEN "ValueError" ELSE ""

\* line 23
DatetimeColumn(f) ==
    Tuple([r \in 1..Len(f.rows) |->
              ToDatetime(Cell(f, r, <<"DATE">>).s \o <<" ">>
                         \o Cell(f, r, <<"TIME">>).s)])

\* line 26
TurnstileIdColumn(f) ==
    Tuple([r \in 1..Len(f.rows) |->
              Str(Cell(f, r, <<"C/A">>).s \o <<"_">> \o Cell(f, r, <<"UNIT">>).s
                  \o <<"_">> \o Cell(f, r, <<"SCP">>).s
                  \o <<"_">> \o Cell(f, r, <<"STATION">>).s)])

\* line 29: the order of sort_values(["TURNSTILE_ID", "DATETIME"])
KeyLess(f, a, b) ==
    LET t == ColumnIndex(f, <<"TURNSTILE_ID">>)
        d == ColumnIndex(f, <<"DATETIME">>)
    IN \/ StrLess(a[t].s, b[t].s)
       \/ a[t].s = b[t].s /\ a[d].n < b[d].n

RECURSIVE InsertRow(_, _, _)
InsertRow(f, row, sorted) ==
    IF sorted = <<>> THEN <<row>>
    ELSE IF KeyLess(f, row, Head(sorted)) THEN <<row>> \o sorted
    ELSE <<Head(sorted)>> \o InsertRow(f, row, Tail(sorted))

\* Rows that compare equal keep their order (pandas sorts several keys
\* with a stable sort).
RECURSIVE SortedRows(_, _)
SortedRows(f, rows) ==
    IF rows = <<>> THEN <<>>
    ELSE InsertRow(f, rows[Len(rows)],
                   SortedRows(f, SubSeq(rows, 1, Len(rows) - 1)))

SortValues(f) == Frame(f.columns, SortedRows(f, f.rows))

\* lines 30-31: Series.diff()
Diff(f, name) ==
    Tuple([r \in 1..Len(f.rows) |->
              IF r = 1 \/ Cell(f, r, name).kind = "nan"
                       \/ Cell(f, r - 1, name).kind = "nan"
              THEN NaN
              ELSE Float(Cell(f, r, name).n - Cell(f, r - 1, name).n)])

\* A mask that forgets the device boundaries.
BoundaryMaskFirstOnly(f, r) == r = 1

\* line 32: df.TURNSTILE_ID != df.TURNSTILE_ID.shift(1)
BoundaryMask(f, r) ==
    r = 1 \/ Cell(f, r, <<"TURNSTILE_ID">>) # Cell(f, r - 1, <<"TURNSTILE_ID">>)

\* lines 33-34: df.loc[mask, name] = np.nan
MaskColumn(f, name) ==
    SetColumn(f, name,
              Tuple([r \in 1..Len(f.rows) |->
                        IF BoundaryMask(f, r) THEN NaN ELSE Cell(f, r, name)]))

\* line 37: dropna(how='any')
NoNaN(f, r) == \A c \in 1..Len(f.rows[r]) : f.rows[r][c].kind # "nan"

DropNa(f) == KeepRows(f, NoNaN)

\* line 43: rename(columns={old: new})
Rename(f, old, new) ==
    Frame([i \in 1..Len(f.columns) |->
              IF f.columns[i] = old THEN new ELSE f.columns[i]], f.rows)

\* lines 46-49, as written: the fourth test repeats the second
EntriesBelow(f, r) == Cell(f, r, <<"ENTRIES">>).n < 3000
EntriesAbove(f, r) == Cell(f, r, <<"ENTRIES">>).n > 0
ExitsBelow(f, r) == Cell(f, r, <<"EXITS">>).n < 3000

DropAnomalous(f) ==
    KeepRows(KeepRows(KeepRows(KeepRows(f, EntriesBelow), EntriesAbove),
                      ExitsBelow),
             EntriesAbove)

\* lines 62-63
WdayOf(f, r) == Int64(Weekday(Cell(f, r, <<"DATETIME">>)))
WeekdayNameOf(f, r) == Str(<<days_of_the_week(Cell(f, r, <<"WDAY">>).n)>>)
\* line 66
WeekOf(f, r) == Int64(IsoWeek(Cell(f, r, <<"DATETIME">>)))
\* line 69
HourOfRow(f, r) == Int64(Hour(Cell(f, r, <<"DATETIME">>)))
\* lines 71-72: astype(int)
EntriesAsInt(f, r) == Int64(Cell(f, r, <<"ENTRIES">>).n)
ExitsAsInt(f, r) == Int64(Cell(f, r, <<"EXITS">>).n)

\* lines 62-72
Enrich(f) ==
    AddColumn(
      AddColumn(
        AddColumn(
          AddColumn(
            AddColumn(AddColumn(f, <<"WDAY">>, WdayOf), <<"WEEKDAY">>, WeekdayNameOf),
            <<"WEEK">>, WeekOf),
          <<"HOUR">>, HourOfRow),
        <<"ENTRIES">>, EntriesAsInt),
      <<"EXITS">>, ExitsAsInt)

\* s without its k-th element
Without(s, k) == SubSeq(s, 1, k - 1) \o SubSeq(s, k + 1, Len(s))

\* line 76: pd.merge(df, station_coordinates, on="STATION"), an inner
\* join that keeps the order of the left rows
RECURSIVE MergeRows(_, _, _)
MergeRows(f, rows, right) ==
    IF rows = <<>> THEN <<>>
    ELSE LET key == Head(rows)[ColumnIndex(f, <<"STATION">>)]
             k == ColumnIndex(right, <<"STATION">>)
             hits == SelectSeq(right.rows, LAMBDA q : q[k] = key)
         IN Tuple([h \in 1..Len(hits) |-> Head(rows) \o Without(hits[h], k)])
            \o MergeRows(f, Tail(rows), right)

Merge(f, right) ==
    Frame(f.columns \o Without(right.columns, ColumnIndex(right, <<"STATION">>)),
          MergeRows(f, f.rows, right))

\* lines 36-76: everything after the in-place part
Derive(f) ==
    Merge(Enrich(DropAnomalous(
              Rename(Rename(DropColumns(DropNa(f), {<<"ENTRIES">>, <<"EXITS">>}),
                            <<"entry_diffs">>, <<"ENTRIES">>),
                     <<"exit_diffs">>, <<"EXITS">>))),
          station_coordinates)

Outcome(frame, out, kind, line) ==
    [df |-> frame, out |-> out, err |-> [kind |-> kind, line |-> line]]

\* lines 33-78
AfterExitDiffs(f) ==
    LET masked == MaskColumn(MaskColumn(f, <<"entry_diffs">>), <<"exit_diffs">>)
    IN Outcome(masked, Derive(masked), "", 0)

\* line 31
AfterEntryDiffs(f) ==
    IF ~ HasColumn(f, <<"EXITS">>) THEN Outcome(f, NoFrame, "KeyError", 31)
    ELSE AfterExitDiffs(SetColumn(f, <<"exit_diffs">>, Diff(f, <<"EXITS">>)))

\* line 30
AfterSort(f) ==
    IF ~ HasColumn(f, <<"ENTRIES">>) THEN Outcome(f, NoFrame, "KeyError", 30)
    ELSE AfterEntryDiffs(SetColumn(f, <<"entry_diffs">>, Diff(f, <<"ENTRIES">>)))

\* lines 26-29
AfterDatetime(f) ==
    IF ~ \A n \in {<<"C/A">>, <<"UNIT">>, <<"SCP">>, <<"STATION">>} :
            HasColumn(f, n)
    THEN Outcome(f, NoFrame, "KeyError", 26)
    ELSE AfterSort(SortValues(SetColumn(f, <<"TURNSTILE_ID">>,
                                        TurnstileIdColumn(f))))

\* lines 20-23
AfterStrip(f) ==
    IF check_column_names(f.columns) # ""
    THEN Outcome(f, NoFrame, check_column_names(f.columns), 120)
    ELSE IF ~ \A n \in {<<"DATE">>, <<"TIME">>} : HasColumn(f, n)
    THEN Outcome(f, NoFrame, "KeyError", 23)
    ELSE AfterDatetime(SetColumn(f, <<"DATETIME">>, DatetimeColumn(f)))

\* lines 5-78: cleanse_data. df is what the caller's frame object holds
\* when the call ends, out the frame returned, err the exception raised.
cleanse_data(f) == AfterStrip(strip_spaces(StripHeader(f)))

\* ------------------------------------------------ cleanse_data: the call

ReadingTimes ==
    {<<"05/03/2019", "20:00:00">>, <<"05/04/2019", "00:00:00">>,
     <<"05/04/2019", "04:00:00">>}

\* Cumulative (ENTRIES, EXITS) readings: their differences hit 0, 1, 2999,
\* 3000 and negative values.
Counters == {<<0, 0>>, <<1, 0>>, <<3000, 1>>}

RawRow(station, when, counter) ==
    <<Str(<<"A002">>), Str(<<"R051">>), Str(<<"02-00-00">>), Str(station),
      Str(<<"NQR456W">>), Str(<<"BMT">>), Str(<<when[1]>>), Str(<<when[2]>>),
      Str(<<"REGULAR">>), Int64(counter[1]), Int64(counter[2])>>

RawRows ==
    {RawRow(st, w, c) : st \in {<<"59 ST">>, <<"5 AV">>},
                        w \in ReadingTimes, c \in Counters}

\* Rows for the header cases: a padded station text, and a station the
\* coordinate table does not list.
SchemaRows ==
    {RawRow(st, w, c) : st \in {<<"59 ST">>, <<"59 ST", " ">>, <<"WTC">>},
                        w \in {<<"05/04/2019", "00:00:00">>,
                               <<"05/04/2019", "04:00:00">>},
                        c \in {<<0, 0>>, <<1, 1>>}}

HeaderCases ==
    {"exact", "padded", "reordered", "no_exits", "extra", "desc_renamed",
     "date_renamed", "scp_renamed", "entries_renamed", "exits_renamed"}

RenameAt(columns, old, new) ==
    Tuple([i \in 1..Len(columns) |->
              IF columns[i] = old THEN new ELSE columns[i]])

\* The raw frame read_csv yields for a file whose header is the given case.
RawFrame(case, rows) ==
    LET c == correct_column_names
    IN CASE case = "padded" ->
              Frame(RenameAt(c, <<"EXITS">>, <<"EXITS", " ", " ">>), rows)
         [] case = "reordered" ->
              Frame([i \in 1..11 |-> c[IF i = 10 THEN 11 ELSE IF i = 11 THEN 10 ELSE i]],
                    [r \in 1..Len(rows) |->
                        Tuple([i \in 1..11 |->
                            rows[r][IF i = 10 THEN 11 ELSE IF i = 11 THEN 10 ELSE i]])])
         [] case = "no_exits" ->
              Frame(SubSeq(c, 1, 10),
                    [r \in 1..Len(rows) |-> SubSeq(rows[r], 1, 10)])
         [] case = "extra" ->
              Frame(Append(c, <<"NOTE">>),
                    [r \in 1..Len(rows) |-> Append(rows[r], Str(<<"ok">>))])
         [] case = "desc_renamed" ->
              Frame(RenameAt(c, <<"DESC">>, <<"DESCRIPTION">>), rows)
         [] case = "date_renamed" ->
              Frame(RenameAt(c, <<"DATE">>, <<"DAY">>), rows)
         [] case = "scp_renamed" ->
              Frame(RenameAt(c, <<"SCP">>, <<"DEVICE">>), rows)
         [] case = "entries_renamed" ->
              Frame(RenameAt(c, <<"ENTRIES">>, <<"ENTRY">>), rows)
         [] case = "exits_renamed" ->
              Frame(RenameAt(c, <<"EXITS">>, <<"EXIT">>), rows)
         [] OTHER -> Frame(c, rows)

InitNormRest ==
    /\ df0 = df
    /\ npc = "call"
    /\ nout = NoFrame
    /\ nerr = NoError

InitNorm ==
    /\ \E k \in 0..MaxRows : \E rows \in [1..k -> RawRows] :
          df = RawFrame("exact", rows)
    /\ InitNormRest

InitSchema ==
    /\ \E case \in HeaderCases : \E k \in 0..MaxRows :
          \E rows \in [1..k -> SchemaRows] : df = RawFrame(case, rows)
    /\ InitNormRest

\* cleanse_data(df): one call
CleanseData ==
    /\ npc = "call"
    /\ LET o == cleanse_data(df)
       IN /\ df' = o.df
          /\ nout' = o.out
          /\ nerr' = o.err
          /\ npc' = IF o.err.kind = "" THEN "returned" ELSE "raised"
    /\ UNCHANGED <<df0, fetchVars, aggVars>>

NextNorm == CleanseData

\* ------------------------------------------------ utils.py: data

MaxAggRows == 3

\* A frame of utils.py: the set of its column names and its rows, each a
\* function from the column names. Of the text columns only STATION is
\* kept: groupby().sum() drops the others.
AggFrame(columns, rows) == [columns |-> columns, rows |-> rows]

\* Python's order on the station names of the model
StationRank(st) == IF st = "5 AV" THEN 1 ELSE 2

\* The coordinates the station table gives, in thousandths of a degree
LatitudeOf(st) == IF st = "5 AV" THEN 40753 ELSE 40762
LongitudeOf(st) == IF st = "5 AV" THEN -73981 ELSE -73967

\* A float: the fraction num/den in lowest terms, den = 0 being NaN
RECURSIVE Gcd(_, _)
Gcd(a, b) == IF b = 0 THEN a ELSE Gcd(b, a % b)

Abs(a) == IF a < 0 THEN -a ELSE a

Rat(num, den) ==
    LET g == Gcd(Abs(num), den)
    IN IF den = 0 THEN [num |-> 0, den |-> 0]
       ELSE [num |-> num \div g, den |-> den \div g]

RatNaN == [num |-> 0, den |-> 0]

RatSub(a, b) ==
    IF a.den = 0 \/ b.den = 0 THEN RatNaN
    ELSE Rat(a.num * b.den - b.num * a.den, a.den * b.den)

RatLess(a, b) == a.num * b.den < b.num * a.den

\* The order of one column's values
ValLess(col, x, y) ==
    CASE col = "STATION" -> StationRank(x) < StationRank(y)
      [] col = "WEEKEND" -> (~x) /\ y
      [] OTHER -> x < y

\* The values of the key columns of a row, and their lexicographic order
KeyOf(r, keys) == [k \in 1..Len(keys) |-> r[keys[k]]]

KeySeqLess(a, b, keys) ==
    \E k \in 1..Len(keys) :
        /\ \A j \in 1..(k - 1) : a[j] = b[j]
        /\ ValLess(keys[k], a[k], b[k])

\* The distinct keys of the rows, ascending (groupby sorts its keys)
RECURSIVE SortedKeys(_, _)
SortedKeys(S, keys) ==
    IF S = {} THEN <<>>
    ELSE LET m == CHOOSE a \in S : \A b \in S \ {a} : KeySeqLess(a, b, keys)
         IN <<m>> \o SortedKeys(S \ {m}, keys)

RECURSIVE SumCol(_, _)
SumCol(rows, col) ==
    IF rows = <<>> THEN 0 ELSE Head(rows)[col] + SumCol(Tail(rows), col)

RangeOf(keys) == {keys[k] : k \in 1..Len(keys)}

\* df.groupby(keys).sum().reset_index()
GroupSum(f, keys) ==
    LET ks == SortedKeys({KeyOf(f.rows[i], keys) : i \in 1..Len(f.rows)}, keys)
        rest == f.columns \ RangeOf(keys)
        grp(key) == SelectSeq(f.rows, LAMBDA r : KeyOf(r, keys) = key)
        pos(c) == CHOOSE k \in 1..Len(keys) : keys[k] = c
    IN AggFrame(f.columns,
                [g \in 1..Len(ks) |->
                    [c \in f.columns |->
                        IF c \in rest THEN SumCol(grp(ks[g]), c)
                        ELSE ks[g][pos(c)]]])

\* df.groupby(keys).mean().reset_index()
GroupMean(f, keys) ==
    LET ks == SortedKeys({KeyOf(f.rows[i], keys) : i \in 1..Len(f.rows)}, keys)
        rest == f.columns \ RangeOf(keys)
        grp(key) == SelectSeq(f.rows, LAMBDA r : KeyOf(r, keys) = key)
        pos(c) == CHOOSE k \in 1..Len(keys) : keys[k] = c
    IN AggFrame(f.columns,
                [g \in 1..Len(ks) |->
                    [c \in f.columns |->
                        IF c \in rest
                        THEN Rat(SumCol(grp(ks[g]), c), Len(grp(ks[g])))
                        ELSE ks[g][pos(c)]]])

\* sort_values(keys, ascending=False): stable, descending
RECURSIVE InsertDescending(_, _, _)
InsertDescending(r, sorted, keys) ==
    IF sorted = <<>> THEN <<r>>
    ELSE IF KeySeqLess(KeyOf(Head(sorted), keys), KeyOf(r, keys), keys)
    THEN <<r>> \o sorted
    ELSE <<Head(sorted)>> \o InsertDescending(r, Tail(sorted), keys)

RECURSIVE SortDescending(_, _)
SortDescending(rows, keys) ==
    IF rows = <<>> THEN <<>>
    ELSE InsertDescending(rows[Len(rows)],
                          SortDescending(SubSeq(rows, 1, Len(rows) - 1), keys),
                          keys)

\* f[name] = cells
WithColumn(f, name, cells) ==
    AggFrame(f.columns \cup {name},
             [i \in 1..Len(f.rows) |->
                 [c \in f.columns \cup {name} |->
                     IF c = name THEN cells[i] ELSE f.rows[i][c]]])

\* f.drop(names, axis=1)
WithoutColumns(f, names) ==
    AggFrame(f.columns \ names,
             [i \in 1..Len(f.rows) |->
                 [c \in f.columns \ names |-> f.rows[i][c]]])

\* diff(periods=1): each row minus the previous row of its own group.
GroupDiffPrev(f, keys, col) ==
    [i \in 1..Len(f.rows) |->
        LET earlier == {j \in 1..(i - 1) :
                           KeyOf(f.rows[j], keys) = KeyOf(f.rows[i], keys)}
        IN IF earlier = {} THEN RatNaN
           ELSE LET j == CHOOSE n \in earlier : \A m \in earlier : n >= m
                IN RatSub(f.rows[i][col], f.rows[j][col])]

\* diff(periods=-1) on the whole frame, without the groupby.
DiffNextUngrouped(f, keys, col) ==
    [i \in 1..Len(f.rows) |->
        IF i = Len(f.rows) THEN RatNaN
        ELSE RatSub(f.rows[i][col], f.rows[i + 1][col])]

\* f.groupby(keys).diff(periods=-1)[col]: each row minus the next row of
\* its own group, NaN on a group's last row
GroupDiffNext(f, keys, col) ==
    [i \in 1..Len(f.rows) |->
        LET later == {j \in (i + 1)..Len(f.rows) :
                         KeyOf(f.rows[j], keys) = KeyOf(f.rows[i], keys)}
        IN IF later = {} THEN RatNaN
           ELSE LET j == CHOOSE n \in later : \A m \in later : n <= m
                IN RatSub(f.rows[i][col], f.rows[j][col])]

\* lines 13-15: the daily totals of the week
DailyEntries(f, wk) ==
    LET summed == GroupSum(AggFrame(f.columns,
                                    SelectSeq(f.rows, LAMBDA r : r.WEEK = wk)),
                           <<"STATION", "WDAY", "LATITUDE", "LONGITUDE">>)
    IN AggFrame(summed.columns,
                SortDescending(summed.rows, <<"STATION", "WDAY">>))

\* line 17
IsWeekend(wday) == wday > 4

FlagWeekend(f) ==
    WithColumn(f, "WEEKEND",
               [i \in 1..Len(f.rows) |-> IsWeekend(f.rows[i].WDAY)])

\* lines 19-20, before the drop
Averages(f) ==
    GroupMean(f, <<"STATION", "WEEKEND", "LATITUDE", "LONGITUDE">>)

\* lines 23-26
EntryDiffs(f) ==
    WithColumn(f, "Entry_diffs",
               GroupDiffNext(f, <<"STATION", "LATITUDE", "LONGITUDE">>, "ENTRIES"))

ExitDiffs(f) ==
    WithColumn(f, "Exit_diffs",
               GroupDiffNext(f, <<"STATION", "LATITUDE", "LONGITUDE">>, "EXITS"))

\* line 28: dropna(how='any')
DropNaDiffs(f) ==
    AggFrame(f.columns,
             SelectSeq(f.rows,
                       LAMBDA r : r.Entry_diffs.den # 0 /\ r.Exit_diffs.den # 0))

\* lines 21-32: the drop of line 21 raises KeyError for a label the
\* frame does not have
AfterMeans(f) ==
    IF ~ ({"WDAY", "index", "WEEK", "HOUR"} \subseteq f.columns)
    THEN [out |-> AggFrame({}, <<>>), err |-> "KeyError"]
    ELSE [out |-> WithoutColumns(
                      DropNaDiffs(ExitDiffs(EntryDiffs(
                          WithoutColumns(f, {"WDAY", "index", "WEEK", "HOUR"})))),
                      {"ENTRIES", "WEEKEND", "EXITS"}),
          err |-> ""]

\* lines 13-32: weekday_weekend_traffic_differences. [out, err]
weekday_weekend_traffic_differences(f, wk) ==
    AfterMeans(Averages(FlagWeekend(DailyEntries(f, wk))))

\* ------------------------------------------------ utils.py: the call

AggColumns ==
    {"STATION", "WDAY", "WEEK", "HOUR", "ENTRIES", "EXITS", "LATITUDE",
     "LONGITUDE"}

\* A normalized reading: one interval of one turnstile of the station
Reading(st, wday, wk) ==
    [STATION |-> st, WDAY |-> wday, WEEK |-> wk, HOUR |-> 4, ENTRIES |-> 1,
     EXITS |-> 2, LATITUDE |-> LatitudeOf(st), LONGITUDE |-> LongitudeOf(st)]

Readings ==
    {Reading(st, d, w) : st \in {"59 ST", "5 AV"}, d \in {0, 4, 5},
                         w \in {18, 19}}

\* The frame with the column `index` a reset_index() leaves, or without
Indexed(rows) ==
    AggFrame(AggColumns \cup {"index"},
             [i \in 1..Len(rows) |->
                 [c \in AggColumns \cup {"index"} |->
                     IF c = "index" THEN i - 1 ELSE rows[i][c]]])

InitAgg ==
    /\ \E k \in 0..MaxAggRows : \E rows \in [1..k -> Readings] :
          adf \in {Indexed(rows), AggFrame(AggColumns, rows)}
    /\ week \in {18, 19}
    /\ apc = "call"
    /\ aout = AggFrame({}, <<>>)
    /\ aerr = ""

TrafficDifferences ==
    /\ apc = "call"
    /\ LET o == weekday_weekend_traffic_differences(adf, week)
       IN /\ aout' = o.out
          /\ aerr' = o.err
          /\ apc' = IF o.err = "" THEN "returned" ELSE "raised"
    /\ UNCHANGED <<adf, week, fetchVars, normVars>>

NextAgg == TrafficDifferences

\* ------------------------------------------------ specifications

IdleFetch ==
    /\ anchors = <<>> /\ start_date = Datetime(20190420)
    /\ end_date = Datetime(20190420) /\ pc = "idle" /\ links = <<>>
    /\ filtered = <<>> /\ idx = 1 /\ fetched = <<>> /\ failed = {}
    /\ turnstile_df = <<>> /\ err = NoError

IdleNorm ==
    /\ df = NoFrame /\ df0 = NoFrame /\ npc = "idle" /\ nout = NoFrame
    /\ nerr = NoError

IdleAgg ==
    /\ adf = AggFrame({}, <<>>) /\ week = 18 /\ apc = "idle"
    /\ aout = AggFrame({}, <<>>) /\ aerr = ""

Init == InitFetch /\ IdleNorm /\ IdleAgg
Next == NextFetch
Spec == Init /\ [][Next]_vars

InitOfNorm == IdleFetch /\ InitNorm /\ IdleAgg
SpecNorm == InitOfNorm /\ [][NextNorm]_vars

InitOfSchema == IdleFetch /\ InitSchema /\ IdleAgg
SpecSchema == InitOfSchema /\ [][NextNorm]_vars

InitOfAgg == IdleFetch /\ IdleNorm /\ InitAgg
SpecAgg == InitOfAgg /\ [][NextAgg]_vars

\* ================================================== import_data: claims

\* The catalog entries a call with the given range has to fetch: the URLs
\* of the data anchors whose text is a date after start_date and not after
\* end_date, in page order.
RECURSIVE UrlsInRange(_)
UrlsInRange(as) ==
    IF as = <<>> THEN <<>>
    ELSE (IF /\ IsDataLink(Head(as))
             /\ Parses(Head(as).text)
             /\ ParseDate(Head(as).text) > start_date.value
             /\ ParseDate(Head(as).text) <= end_date.value
          THEN <<BasePath \o Head(as).href>>
          ELSE <<>>)
         \o UrlsInRange(Tail(as))

RECURSIVE TablesOf(_)
TablesOf(urls) ==
    IF urls = <<>> THEN <<>> ELSE CsvAt(Head(urls)) \o TablesOf(Tail(urls))

DataAnchors == SelectSeq(anchors, IsDataLink)

FindLinksDone == pc \in {"mask", "loop", "returned"} \/ (pc = "raised" /\ err.line \in {37, 46})

\* C4: a failed fetch of one source is skipped: import_data does not raise
\* because of it, every URL of the filtered list is still fetched, and the
\* frame returned holds the tables of the sources that were read.
C4_FailedFetchIsSkipped ==
    /\ failed # {} => ~(pc = "raised" /\ err.line = 46)
    /\ pc = "returned" =>
          /\ fetched = [i \in 1..Len(filtered) |-> filtered[i].Hyperlink]
          /\ turnstile_df =
                TablesOf(SelectSeq(fetched, LAMBDA u : u \notin failed))

\* C5: a call that returns has fetched exactly the catalog entries dated
\* after start_date and up to end_date, each once and in catalog order, and
\* returns the concatenation of their tables in that order.
C5_FetchesExactlyTheRange ==
    pc = "returned" =>
        /\ start_date.value <= end_date.value
        /\ fetched = UrlsInRange(anchors)
        /\ turnstile_df = TablesOf(UrlsInRange(anchors))

\* C5 witness: the catalog dated D-1, D, D+1 with start = D-1, end = D;
\* only the entry dated D was fetched.
C5_Witness ==
    /\ pc = "returned"
    /\ [i \in 1..Len(anchors) |-> anchors[i].text] =
          <<"Saturday, April 27, 2019", "Saturday, May 04, 2019",
            "Saturday, May 11, 2019">>
    /\ start_date = Datetime(20190427)
    /\ end_date = Datetime(20190504)
    /\ fetched = <<BasePath \o DataMarker \o <<"turnstile_190504.txt">>>>
    /\ turnstile_df = CsvAt(fetched[1])

\* C8: with a catalog entry whose text is no date, find_links keeps the
\* entry and gives every other entry its parsed date, the range filter of
\* import_data completes, and the call fetches the parseable entries in range.
C8_UnparseableDateIsExcluded ==
    (\E i \in 1..Len(DataAnchors) : ~Parses(DataAnchors[i].text)) =>
        /\ FindLinksDone =>
              /\ Len(links) = Len(DataAnchors)
              /\ \A i \in 1..Len(links) :
                    Parses(DataAnchors[i].text) =>
                        links[i].Date = [type |-> "Timestamp",
                                         value |-> ParseDate(DataAnchors[i].text)]
        /\ ~(pc = "raised" /\ err.line = 37)
        /\ pc = "returned" => fetched = UrlsInRange(anchors)

\* C9: find_links on anchors none of which carries the data marker fails
\* with the error of line 75, RuntimeError (NoMatchingLinks); with a
\* matching anchor it returns one entry per matching anchor.
C9_NoMatchingLinks ==
    /\ (pc = "raised" /\ err.line = 75) => err.kind = "RuntimeError"
    /\ (Len(DataAnchors) = 0 /\ pc \notin {"call", "request", "find_links"}) =>
          pc = "raised"
    /\ (Len(DataAnchors) > 0 /\ FindLinksDone) => Len(links) = Len(DataAnchors)

\* ================================================== cleanse_data: claims

OutCell(r, name) == Cell(nout, r, name)

\* C1: every row cleanse_data returns has 0 < ENTRIES < 3000 and
\* 0 < EXITS < 3000.
C1_DeltasInRange ==
    npc = "returned" =>
        \A r \in 1..Len(nout.rows) :
            /\ 0 < OutCell(r, <<"ENTRIES">>).n
            /\ OutCell(r, <<"ENTRIES">>).n < 3000
            /\ 0 < OutCell(r, <<"EXITS">>).n
            /\ OutCell(r, <<"EXITS">>).n < 3000

\* The raw readings as the caller passed them (header in file order, the
\* texts stripped): device, time and counters of reading i.
RawDevice(i) ==
    <<Str(Strip(df0.rows[i][1].s)), Str(Strip(df0.rows[i][2].s)),
      Str(Strip(df0.rows[i][3].s)), Str(Strip(df0.rows[i][4].s))>>
RawStamp(i) == ToDatetime(df0.rows[i][7].s \o <<" ">> \o df0.rows[i][8].s)
RawEntries(i) == df0.rows[i][10].n
RawExits(i) == df0.rows[i][11].n

\* Reading j comes before reading i in the series of their device: earlier
\* in time, or at the same time and earlier in the input.
Before(j, i) ==
    /\ RawDevice(j) = RawDevice(i)
    /\ \/ RawStamp(j).n < RawStamp(i).n
       \/ RawStamp(j).n = RawStamp(i).n /\ j < i

Readers == 1..Len(df0.rows)

IsPrevious(j, i) ==
    /\ Before(j, i)
    /\ ~ \E k \in Readers : Before(j, k) /\ Before(k, i)

OutDevice(r) ==
    <<OutCell(r, <<"C/A">>), OutCell(r, <<"UNIT">>), OutCell(r, <<"SCP">>),
      OutCell(r, <<"STATION">>)>>

\* Output row r is the reading i with its deltas against reading j.
IsDeltaOf(r, i, j) ==
    /\ OutDevice(r) = RawDevice(i)
    /\ OutCell(r, <<"DATETIME">>) = RawStamp(i)
    /\ OutCell(r, <<"ENTRIES">>).n = RawEntries(i) - RawEntries(j)
    /\ OutCell(r, <<"EXITS">>).n = RawExits(i) - RawExits(j)

\* C2: whatever the order of the raw rows, each output row carries a
\* reading's counters minus those of the reading of the same device just
\* before it in time; no delta spans two devices, and the first reading of
\* a device gives no output row.
C2_DeltaAgainstPreviousReading ==
    npc = "returned" =>
        /\ \A r \in 1..Len(nout.rows) :
              \E i \in Readers : \E j \in Readers :
                  IsPrevious(j, i) /\ IsDeltaOf(r, i, j)
        /\ \A i \in Readers :
              Cardinality({r \in 1..Len(nout.rows) :
                              /\ OutDevice(r) = RawDevice(i)
                              /\ OutCell(r, <<"DATETIME">>) = RawStamp(i)})
              <= Cardinality({k \in Readers :
                                 /\ RawDevice(k) = RawDevice(i)
                                 /\ RawStamp(k) = RawStamp(i)
                                 /\ \E j \in Readers : Before(j, k)})

\* C2 witness: three readings of one device passed latest first, and both
\* later readings are in the output, each against the one just before it.
C2_Witness ==
    /\ npc = "returned"
    /\ Len(df0.rows) = 3
    /\ Before(3, 2) /\ Before(2, 1)
    /\ RawStamp(3).n < RawStamp(2).n /\ RawStamp(2).n < RawStamp(1).n
    /\ Len(nout.rows) = 2
    /\ IsDeltaOf(1, 2, 3)
    /\ IsDeltaOf(2, 1, 2)

\* The stripped header of the frame passed in is the eleven MTA columns.
SchemaOk ==
    /\ Len(df0.columns) = Len(correct_column_names)
    /\ {Strip(df0.columns[i]) : i \in 1..Len(df0.columns)}
          = Range(correct_column_names)

\* C3: on a frame whose stripped column set is not the eleven expected
\* columns cleanse_data fails in check_column_names, before the timestamp
\* merge, and returns nothing.
C3_SchemaMismatchRaises ==
    (npc # "call" /\ ~SchemaOk) =>
        /\ npc = "raised"
        /\ nerr.kind = "ValueError"
        /\ nerr.line \in 105..121
        /\ ~HasColumn(df, <<"DATETIME">>)
        /\ nout = NoFrame

\* C10: after the call, returned or failed, the caller's frame is what it
\* was: same header, same cells, same row order.
C10_InputUntouched == npc # "call" => df = df0

\* ================================================== utils.py: claims

StationNames == {"59 ST", "5 AV"}

WeekRows == {i \in 1..Len(adf.rows) : adf.rows[i].WEEK = week}

DaysOf(st, days) ==
    {d \in days : \E i \in WeekRows :
                     adf.rows[i].STATION = st /\ adf.rows[i].WDAY = d}

WeekdaysOf(st) == DaysOf(st, 0..4)
WeekendDaysOf(st) == DaysOf(st, 5..6)
HasBoth(st) == WeekdaysOf(st) # {} /\ WeekendDaysOf(st) # {}

RECURSIVE SumOver(_, _)
SumOver(S, col) ==
    IF S = {} THEN 0
    ELSE LET i == CHOOSE x \in S : TRUE
         IN adf.rows[i][col] + SumOver(S \ {i}, col)

\* The sum, over the given days, of the station's daily totals of col
TotalOf(st, days, col) ==
    SumOver({i \in WeekRows : adf.rows[i].STATION = st
                              /\ adf.rows[i].WDAY \in days}, col)

\* q is (mean over the weekdays) - (mean over the weekend days) of the
\* station's daily totals of col
IsWeekdayMinusWeekend(q, st, col) ==
    LET nw == Cardinality(WeekdaysOf(st))
        ne == Cardinality(WeekendDaysOf(st))
    IN /\ q.den # 0
       /\ q.num * (nw * ne) =
             (TotalOf(st, WeekdaysOf(st), col) * ne
              - TotalOf(st, WeekendDaysOf(st), col) * nw) * q.den

OutRowsOf(st) == {r \in 1..Len(aout.rows) : aout.rows[r].STATION = st}

====
